---- MODULE Spec2Model ----
(***************************************************************************)
(* A model of the IoT sensor data analyzer (src/analyzer.py): the command  *)
(* line, the row filter, the timestamp and value parsers, the aggregation  *)
(* loop of main(), compute_statistics and the two top-10 rankings.         *)
(*                                                                         *)
(* Text is modelled at the level of lexemes: a Python str is a record      *)
(* [str |-> <<token, ...>>], where a token is a whitespace character or an *)
(* unbroken word ("2025-01-01", "+0100", "2.5", "nan", ...); two words are *)
(* always separated by whitespace.  The empty string is Str(<<>>).  Floats *)
(* are exact rationals [num, den] together with the three special values   *)
(* float() can produce from text (nan, inf, -inf); rounding and the finite *)
(* range of a double are not modelled.                                     *)
(***************************************************************************)
EXTENDS Integers, Sequences, FiniteSets, TLC

VARIABLES
    pc,             \* position of main(): "start", "open", "loop", "done", "exit"
    argv,           \* the command line flags as given (raw text or None)
    args,           \* the namespace parse_arguments() returns
    columns,        \* the header of the opened CSV file (DictReader.fieldnames)
    consumed,       \* the rows the reader has yielded so far, in input order
    aggregations,   \* defaultdict(list), in insertion order: <<[key, values]>>
    stats,          \* dict key -> statistics, in insertion order
    top_by_avg,     \* sorted(...)[:10] by average
    top_by_stddev,  \* sorted(...)[:10] by std_dev
    out,            \* what has been printed, one entry per message or section
    err,            \* the exception caught by main()'s except clause, or None
    call,           \* the arguments of a direct call of one function
    ret             \* the result of that call

vars == <<pc, argv, args, columns, consumed, aggregations, stats,
          top_by_avg, top_by_stddev, out, err, call, ret>>

----------------------------------------------------------------------------
(* Python values *)

None == [py |-> "None"]
Str(tokens) == [str |-> tokens]
EmptyStr == Str(<<>>)
NaN == [py |-> "nan"]
PosInf == [py |-> "inf"]
NegInf == [py |-> "-inf"]

\* An exception that left a function instead of a return value.
Raise(name) == [exc |-> name]
ValueError == Raise("ValueError")
IsRaise(v) == DOMAIN v = {"exc"}

\* bool(v) for the values a flag can hold: None and "" are false, a non-empty
\* str and every datetime are true.
Truthy(v) == v # None /\ v # EmptyStr

Whitespace == {" "}

RECURSIVE LStrip(_)
LStrip(t) == IF t # <<>> /\ Head(t) \in Whitespace THEN LStrip(Tail(t)) ELSE t

RECURSIVE RStrip(_)
RStrip(t) ==
    IF t # <<>> /\ t[Len(t)] \in Whitespace
    THEN RStrip(SubSeq(t, 1, Len(t) - 1))
    ELSE t

\* str.strip()
strip(s) == Str(RStrip(LStrip(s.str)))

RECURSIVE Reverse(_)
Reverse(s) == IF s = <<>> THEN <<>> ELSE Append(Reverse(Tail(s)), Head(s))

Take(s, n) == SubSeq(s, 1, IF Len(s) < n THEN Len(s) ELSE n)

----------------------------------------------------------------------------
(* Exact rational arithmetic, and the float operations built on it *)

Abs(n) == IF n < 0 THEN -n ELSE n

RECURSIVE GCD(_, _)
GCD(a, b) == IF b = 0 THEN a ELSE GCD(b, a % b)

Rat(n, d) ==
    LET s == IF d < 0 THEN -1 ELSE 1
        g == GCD(Abs(n), Abs(d))
    IN  [num |-> (s * n) \div g, den |-> (s * d) \div g]

Num(n) == [num |-> n, den |-> 1]
IsNum(v) == DOMAIN v = {"num", "den"}
IsSurd(v) == DOMAIN v = {"sqrt"}

RatAdd(a, b) == Rat(a.num * b.den + b.num * a.den, a.den * b.den)
RatSub(a, b) == Rat(a.num * b.den - b.num * a.den, a.den * b.den)
RatMul(a, b) == Rat(a.num * b.num, a.den * b.den)
RatLt(a, b) == a.num * b.den < b.num * a.den

\* x + y
fadd(x, y) ==
    CASE x = NaN \/ y = NaN -> NaN
      [] x = PosInf -> IF y = NegInf THEN NaN ELSE PosInf
      [] x = NegInf -> IF y = PosInf THEN NaN ELSE NegInf
      [] y = PosInf \/ y = NegInf -> y
      [] OTHER -> RatAdd(x, y)

fneg(x) ==
    CASE x = NaN -> NaN
      [] x = PosInf -> NegInf
      [] x = NegInf -> PosInf
      [] OTHER -> Rat(-x.num, x.den)

\* x - y
fsub(x, y) == fadd(x, fneg(y))

\* x ** 2
fsquare(x) ==
    CASE x = NaN -> NaN
      [] x = PosInf \/ x = NegInf -> PosInf
      [] OTHER -> RatMul(x, x)

\* x / n for a count n >= 1
fdiv(x, n) == IF IsNum(x) THEN Rat(x.num, x.den * n) ELSE x

\* The largest r in lo..hi with r * r <= n, found without forming r * r.
RECURSIVE RootBetween(_, _, _)
RootBetween(n, lo, hi) ==
    IF lo >= hi THEN lo
    ELSE LET mid == (lo + hi + 1) \div 2
         IN  IF mid <= n \div mid
             THEN RootBetween(n, mid, hi)
             ELSE RootBetween(n, lo, mid - 1)

Root(n) == RootBetween(n, 0, n)
IsSquare(n) == Root(n) * Root(n) = n

\* math.sqrt(x) for x >= 0: the rational root when there is one, otherwise the
\* surd [sqrt |-> x], the positive real whose square is x.
fsqrt(x) ==
    CASE ~IsNum(x) -> x
      [] IsSquare(x.num) /\ IsSquare(x.den) -> Rat(Root(x.num), Root(x.den))
      [] OTHER -> [sqrt |-> x]

\* The square of a non-negative real (a rational or a surd).
SquareOf(x) == IF IsSurd(x) THEN x.sqrt ELSE RatMul(x, x)

\* x < y; every comparison with nan is false.
flt(x, y) ==
    CASE x = NaN \/ y = NaN -> FALSE
      [] x = y -> FALSE
      [] x = NegInf \/ y = PosInf -> TRUE
      [] x = PosInf \/ y = NegInf -> FALSE
      [] IsNum(x) /\ IsNum(y) -> RatLt(x, y)
      [] IsNum(x) /\ x.num < 0 -> TRUE
      [] IsNum(y) /\ y.num < 0 -> FALSE
      [] OTHER -> RatLt(SquareOf(x), SquareOf(y))

IsFinite(v) == IsNum(v)

----------------------------------------------------------------------------
(* parse_datetime: datetime.strptime against the three formats *)

\* What strptime reads from one lexeme under each directive.  Days count
\* from 2025-01-01, times of day and UTC offsets are in hours.
DateOf == ("2025-01-01" :> 0) @@ ("2025-01-02" :> 1) @@ ("2025-01-03" :> 2)
TimeOf == ("00:00:00" :> 0) @@ ("01:00:00" :> 1) @@ ("23:00:00" :> 23)
OffsetOf == ("+0000" :> 0) @@ ("+0100" :> 1) @@ ("-0100" :> -1)
ZoneNames == {"UTC", "GMT"}

formats ==
    << <<"%Y-%m-%d", " ", "%H:%M:%S", " ", "%z", " ", "%Z">>,
       <<"%Y-%m-%d", " ", "%H:%M:%S">>,
       <<"%Y-%m-%d">> >>

\* A naive datetime at midnight of day 0, the fields strptime fills in.
NaiveMidnight == [day |-> 0, hour |-> 0, aware |-> FALSE, off |-> 0]

\* Matches the lexemes t against the directives f from left to right; a blank
\* in the format matches one or more whitespace characters, and text left
\* over, or a format left over, is a ValueError.
RECURSIVE strptime_match(_, _, _)
strptime_match(t, f, dt) ==
    IF f = <<>> THEN (IF t = <<>> THEN dt ELSE ValueError)
    ELSE IF t = <<>> THEN ValueError
    ELSE LET d == Head(f)
             tok == Head(t)
         IN  CASE d = " " ->
                    IF tok \in Whitespace
                    THEN strptime_match(LStrip(t), Tail(f), dt)
                    ELSE ValueError
               [] d = "%Y-%m-%d" ->
                    IF tok \in DOMAIN DateOf
                    THEN strptime_match(Tail(t), Tail(f), [dt EXCEPT !.day = DateOf[tok]])
                    ELSE ValueError
               [] d = "%H:%M:%S" ->
                    IF tok \in DOMAIN TimeOf
                    THEN strptime_match(Tail(t), Tail(f), [dt EXCEPT !.hour = TimeOf[tok]])
                    ELSE ValueError
               [] d = "%z" ->
                    IF tok \in DOMAIN OffsetOf
                    THEN strptime_match(Tail(t), Tail(f),
                                        [dt EXCEPT !.aware = TRUE, !.off = OffsetOf[tok]])
                    ELSE ValueError
               [] d = "%Z" ->
                    IF tok \in ZoneNames
                    THEN strptime_match(Tail(t), Tail(f), dt)
                    ELSE ValueError

strptime(date_str, fmt) == strptime_match(date_str.str, fmt, NaiveMidnight)

\* dt.replace(tzinfo=timezone.utc) when dt.tzinfo is None
EnsureUTC(dt) == IF dt.aware THEN dt ELSE [dt EXCEPT !.aware = TRUE, !.off = 0]

RECURSIVE TryFormats(_, _)
TryFormats(date_str, i) ==
    IF i > Len(formats) THEN ValueError
    ELSE LET dt == strptime(date_str, formats[i])
         IN  IF dt = ValueError THEN TryFormats(date_str, i + 1) ELSE EnsureUTC(dt)

parse_datetime(date_str) == TryFormats(date_str, 1)

\* The instant of an aware datetime, in hours since 2025-01-01 00:00 UTC;
\* aware datetimes compare by it.
Instant(dt) == dt.day * 24 + dt.hour - dt.off
dt_lt(a, b) == Instant(a) < Instant(b)
IsDatetime(v) == DOMAIN v = {"day", "hour", "aware", "off"}

----------------------------------------------------------------------------
(* convert_to_float *)

\* What float() reads from one lexeme.
FloatOf ==
    ("1" :> Num(1)) @@ ("2" :> Num(2)) @@ ("3.0" :> Num(3)) @@ ("2.5" :> Rat(5, 2))
    @@ ("-1" :> Num(-1)) @@ ("nan" :> NaN) @@ ("inf" :> PosInf) @@ ("-inf" :> NegInf)

\* float(s): a single numeric lexeme, blanks around it allowed.
float(s) ==
    LET t == strip(s).str
    IN  IF Len(t) = 1 /\ t[1] \in DOMAIN FloatOf THEN FloatOf[t[1]] ELSE ValueError

convert_to_float(value_str) ==
    IF value_str = None \/ strip(value_str) = EmptyStr THEN None
    ELSE LET v == float(strip(value_str))
         IN  IF v = ValueError THEN None ELSE v

----------------------------------------------------------------------------
(* should_include *)

Return(b) == [ret |-> b]
HasKey(row, col) == col \in DOMAIN row

\* Lines 96-109: the date range, entered when a start or an end date is set.
\* A missing "time" key is the KeyError the except clause catches; the time
\* field of a row shorter than the header is None, and None.strip() is an
\* AttributeError, which the except clause does not catch.
DateRangeCheck(row, a) ==
    IF ~HasKey(row, "time") THEN Return(FALSE)
    ELSE IF row.time = None THEN Raise("AttributeError")
    ELSE LET row_time == parse_datetime(strip(row.time))
         IN  IF row_time = ValueError THEN Return(FALSE)
             ELSE IF Truthy(a.start_date) /\ dt_lt(row_time, a.start_date)
                  THEN Return(FALSE)
             ELSE IF Truthy(a.end_date) /\ dt_lt(a.end_date, row_time)
                  THEN Return(FALSE)
             ELSE Return(TRUE)

\* should_include with the test for a date flag inverted: the date range is
\* checked when no date flag is set.
should_include_inverted(row, a) ==
    IF Truthy(a.site) /\ ~HasKey(row, "site") THEN Raise("KeyError")
    ELSE IF Truthy(a.site) /\ row.site # a.site THEN Return(FALSE)
    ELSE IF Truthy(a.device) /\ ~HasKey(row, "device") THEN Raise("KeyError")
    ELSE IF Truthy(a.device) /\ row.device # a.device THEN Return(FALSE)
    ELSE IF Truthy(a.metric) /\ ~HasKey(row, "metric") THEN Raise("KeyError")
    ELSE IF Truthy(a.metric) /\ row.metric # a.metric THEN Return(FALSE)
    ELSE IF ~(Truthy(a.start_date) \/ Truthy(a.end_date)) THEN DateRangeCheck(row, a)
    ELSE Return(TRUE)

should_include(row, a) ==
    IF Truthy(a.site) /\ ~HasKey(row, "site") THEN Raise("KeyError")
    ELSE IF Truthy(a.site) /\ row.site # a.site THEN Return(FALSE)
    ELSE IF Truthy(a.device) /\ ~HasKey(row, "device") THEN Raise("KeyError")
    ELSE IF Truthy(a.device) /\ row.device # a.device THEN Return(FALSE)
    ELSE IF Truthy(a.metric) /\ ~HasKey(row, "metric") THEN Raise("KeyError")
    ELSE IF Truthy(a.metric) /\ row.metric # a.metric THEN Return(FALSE)
    ELSE IF Truthy(a.start_date) \/ Truthy(a.end_date) THEN DateRangeCheck(row, a)
    ELSE Return(TRUE)

----------------------------------------------------------------------------
(* compute_statistics *)

RECURSIVE py_sum(_, _)
py_sum(xs, acc) == IF xs = <<>> THEN acc ELSE py_sum(Tail(xs), fadd(acc, Head(xs)))

\* min() and max() keep the first element until a later one compares
\* strictly below (above) it.
RECURSIVE py_min(_, _)
py_min(xs, best) ==
    IF xs = <<>> THEN best
    ELSE py_min(Tail(xs), IF flt(Head(xs), best) THEN Head(xs) ELSE best)

RECURSIVE py_max(_, _)
py_max(xs, best) ==
    IF xs = <<>> THEN best
    ELSE py_max(Tail(xs), IF flt(best, Head(xs)) THEN Head(xs) ELSE best)

NotNone(v) == v # None

SquaredDeviations(xs, average) ==
    [i \in 1..Len(xs) |-> fsquare(fsub(xs[i], average))]

\* StdDev with the divisor count - 1: the sample standard deviation.
StdDevSample(valid_values, average, count) ==
    IF count = 1 THEN Num(0)
    ELSE LET variance == fdiv(py_sum(SquaredDeviations(valid_values, average), Num(0)),
                              count - 1)
         IN  fsqrt(variance)

\* Lines 142-147.
StdDev(valid_values, average, count) ==
    IF count = 1 THEN Num(0)
    ELSE LET variance == fdiv(py_sum(SquaredDeviations(valid_values, average), Num(0)), count)
         IN  fsqrt(variance)

compute_statistics(values) ==
    LET valid_values == SelectSeq(values, NotNone)
        count == Len(valid_values)
        average == fdiv(py_sum(valid_values, Num(0)), count)
    IN  IF count = 0
        THEN [average |-> Num(0), min |-> Num(0), max |-> Num(0),
              count |-> 0, std_dev |-> Num(0)]
        ELSE [average |-> average,
              min |-> py_min(Tail(valid_values), Head(valid_values)),
              max |-> py_max(Tail(valid_values), Head(valid_values)),
              count |-> count,
              std_dev |-> StdDev(valid_values, average, count)]

----------------------------------------------------------------------------
(* sorted(items, key=..., reverse=True), as list.sort does it for a list     *)
(* shorter than 64: reverse, find the leading run, insert the rest by binary *)
(* search, reverse again.  Only "<" on the keys is used, so with comparable  *)
(* keys the result is the stable descending order.                           *)

KeyOf(item, field) == item[field]

\* count_run: the length of the run that starts the list a, given its first
\* two elements are in it.
RECURSIVE count_run(_, _, _, _)
count_run(a, field, descending, n) ==
    IF n < Len(a)
       /\ (flt(KeyOf(a[n + 1], field), KeyOf(a[n], field)) <=> descending)
    THEN count_run(a, field, descending, n + 1)
    ELSE n

RECURSIVE bisect(_, _, _, _, _)
bisect(a, field, pivot, l, r) ==
    IF l < r
    THEN LET p == l + (r - l) \div 2
         IN  IF flt(KeyOf(pivot, field), KeyOf(a[p], field))
             THEN bisect(a, field, pivot, l, p)
             ELSE bisect(a, field, pivot, p + 1, r)
    ELSE l

RECURSIVE binarysort(_, _, _)
binarysort(a, field, start) ==
    IF start > Len(a) THEN a
    ELSE LET pivot == a[start]
             l == bisect(a, field, pivot, 1, start)
         IN  binarysort(SubSeq(a, 1, l - 1) \o <<pivot>> \o SubSeq(a, l, start - 1)
                            \o SubSeq(a, start + 1, Len(a)),
                        field, start + 1)

list_sort(a, field) ==
    IF Len(a) < 2 THEN a
    ELSE LET descending == flt(KeyOf(a[2], field), KeyOf(a[1], field))
             n == count_run(a, field, descending, 2)
             b == IF descending
                  THEN Reverse(SubSeq(a, 1, n)) \o SubSeq(a, n + 1, Len(a))
                  ELSE a
         IN  binarysort(b, field, n + 1)

sorted_reverse(items, field) == Reverse(list_sort(Reverse(items), field))

----------------------------------------------------------------------------
(* The inputs: command lines, CSV headers and rows *)

MaxRows == 2

TopN == 10

AllColumns == {"time", "site", "device", "metric", "value"}

\* The file's header: complete, without a time column, without a value column.
Headers == {AllColumns, AllColumns \ {"time"}, AllColumns \ {"value"}}

NoFlags ==
    [site |-> None, device |-> None, metric |-> None,
     start_date |-> None, end_date |-> None]

Jan2 == Str(<<"2025-01-02">>)

\* The command lines of the runs: no flag, one flag at a time, and both dates.
ArgvSet ==
    { NoFlags,
      [NoFlags EXCEPT !.site = Str(<<"site_1">>)],
      [NoFlags EXCEPT !.site = EmptyStr],
      [NoFlags EXCEPT !.device = Str(<<"dev_1">>)],
      [NoFlags EXCEPT !.metric = Str(<<"temp">>)],
      [NoFlags EXCEPT !.start_date = Jan2],
      [NoFlags EXCEPT !.start_date = EmptyStr],
      [NoFlags EXCEPT !.start_date = Str(<<"junk">>)],
      [NoFlags EXCEPT !.start_date = Str(<<" ", "2025-01-02">>)],
      [NoFlags EXCEPT !.end_date = Jan2],
      [NoFlags EXCEPT !.end_date = Str(<<"2025-01-02T00:00:00">>)],
      [NoFlags EXCEPT !.start_date = Jan2,
                      !.end_date = Str(<<"2025-01-02", " ", "01:00:00">>)] }

BaseRow ==
    [time |-> Jan2, site |-> Str(<<"site_1">>), device |-> Str(<<"dev_1">>),
     metric |-> Str(<<"temp">>), value |-> Str(<<"1">>)]

\* The rows a file may hold: the base row, and the base row with one field
\* changed.  A field is None in a row shorter than the header.
Rows ==
    { BaseRow }
    \cup { [BaseRow EXCEPT !.time = t] :
             t \in { Str(<<"2025-01-01", " ", "23:00:00">>),
                     Str(<<" ", "2025-01-03", " ">>),
                     Str(<<"junk">>),
                     None } }
    \cup { [BaseRow EXCEPT !.site = Str(<<"site_2">>)],
           [BaseRow EXCEPT !.device = Str(<<"dev_2">>)],
           [BaseRow EXCEPT !.metric = Str(<<"humidity">>)] }
    \cup { [BaseRow EXCEPT !.value = v] :
             v \in { Str(<<"2">>), Str(<<" ", "2.5", " ">>), EmptyStr,
                     Str(<<"abc">>), Str(<<"nan">>), None } }

\* The dict DictReader yields for a row under a header.
Project(r, cols) == [c \in cols |-> r[c]]

----------------------------------------------------------------------------
(* main(): the aggregation loop *)

KeyIndex(agg, key) == { i \in 1..Len(agg) : agg[i].key = key }

\* aggregations[key].append(value) on a defaultdict(list): a new key is added
\* after the existing ones.
AppendValue(agg, key, value) ==
    IF KeyIndex(agg, key) = {}
    THEN Append(agg, [key |-> key, values |-> <<value>>])
    ELSE LET i == CHOOSE j \in KeyIndex(agg, key) : TRUE
         IN  [agg EXCEPT ![i].values = Append(@, value)]

\* LoopBody without the test "value is not None": whatever convert_to_float
\* returns is appended.
LoopBodyAppendsNone(agg, row, a) ==
    LET inc == should_include(row, a)
    IN  IF IsRaise(inc) THEN [agg |-> agg, exc |-> inc]
        ELSE IF ~inc.ret THEN [agg |-> agg, exc |-> None]
        ELSE IF ~({"device", "site", "metric", "value"} \subseteq DOMAIN row)
             THEN [agg |-> agg, exc |-> Raise("KeyError")]
        ELSE [agg |-> AppendValue(agg, <<row.device, row.site, row.metric>>,
                                  convert_to_float(row.value)),
              exc |-> None]

\* Lines 200-205, the body of the loop for one row: the mapping after it and
\* the exception that left it, if any.
LoopBody(agg, row, a) ==
    LET inc == should_include(row, a)
    IN  IF IsRaise(inc) THEN [agg |-> agg, exc |-> inc]
        ELSE IF ~inc.ret THEN [agg |-> agg, exc |-> None]
        ELSE IF ~({"device", "site", "metric", "value"} \subseteq DOMAIN row)
             THEN [agg |-> agg, exc |-> Raise("KeyError")]
        ELSE LET key == <<row.device, row.site, row.metric>>
                 value == convert_to_float(row.value)
             IN  IF value # None
                 THEN [agg |-> AppendValue(agg, key, value), exc |-> None]
                 ELSE [agg |-> agg, exc |-> None]

\* Lines 212-220.
CalcStats(agg) ==
    [i \in 1..Len(agg) |->
        [key |-> agg[i].key, device |-> agg[i].key[1], site |-> agg[i].key[2],
         metric |-> agg[i].key[3]] @@ compute_statistics(agg[i].values)]

\* Lines 223-227 and 230-234.
TopBy(st, field) == Take(sorted_reverse(st, field), TopN)

ReportSections ==
    <<"AGGREGATION RESULTS", "TOP 10 BY AVERAGE VALUE", "TOP 10 BY STANDARD DEVIATION">>

\* Lines 211-255: the statistics, the two rankings and the three sections.
WriteReport(agg) ==
    /\ stats' = CalcStats(agg)
    /\ top_by_avg' = TopBy(CalcStats(agg), "average")
    /\ top_by_stddev' = TopBy(CalcStats(agg), "std_dev")
    /\ out' = out \o ReportSections

\* ExceptException without the return: the error is printed and main() goes
\* on to the report.
ExceptExceptionNoReturn(e) ==
    /\ err' = e
    /\ stats' = CalcStats(aggregations)
    /\ top_by_avg' = TopBy(CalcStats(aggregations), "average")
    /\ top_by_stddev' = TopBy(CalcStats(aggregations), "std_dev")
    /\ out' = Append(out, "Error reading file") \o ReportSections
    /\ pc' = "done"

\* Lines 207-209: except Exception: print the error and return.
ExceptException(e) ==
    /\ err' = e
    /\ out' = Append(out, "Error reading file")
    /\ pc' = "done"
    /\ UNCHANGED <<stats, top_by_avg, top_by_stddev>>

\* parse_arguments(), lines 47-62: a date flag that is set (true) is parsed;
\* parser.error() prints the usage error and exits with status 2.
ParseArguments ==
    /\ pc = "start"
    /\ LET start_date == IF Truthy(argv.start_date)
                         THEN parse_datetime(argv.start_date)
                         ELSE argv.start_date
           end_date == IF Truthy(argv.end_date)
                       THEN parse_datetime(argv.end_date)
                       ELSE argv.end_date
       IN  IF start_date = ValueError \/ end_date = ValueError
           THEN /\ out' = Append(out, "usage error")
                /\ pc' = "exit"
                /\ args' = args
           ELSE /\ args' = [argv EXCEPT !.start_date = start_date,
                                        !.end_date = end_date]
                /\ pc' = "open"
                /\ out' = out
    /\ UNCHANGED <<argv, columns, consumed, aggregations, stats, top_by_avg,
                   top_by_stddev, err, call, ret>>

\* Line 196-197: open() succeeds and the reader takes the header, or fails.
OpenFile ==
    /\ pc = "open"
    /\ \/ /\ \E h \in Headers : columns' = h
          /\ pc' = "loop"
          /\ UNCHANGED <<out, err, stats, top_by_avg, top_by_stddev>>
       \/ /\ ExceptException(Raise("FileNotFoundError"))
          /\ UNCHANGED columns
    /\ UNCHANGED <<argv, args, consumed, aggregations, call, ret>>

\* One iteration of the for loop over the row r of the file.
ReadGivenRow(r) ==
    LET row == Project(r, columns)
        res == LoopBody(aggregations, row, args)
    IN  /\ consumed' = Append(consumed, row)
        /\ aggregations' = res.agg
        /\ IF res.exc = None
           THEN UNCHANGED <<pc, out, err, stats, top_by_avg, top_by_stddev>>
           ELSE ExceptException(res.exc)
        /\ UNCHANGED <<argv, args, columns, call, ret>>

ReadRow ==
    /\ pc = "loop"
    /\ Len(consumed) < MaxRows
    /\ \E r \in Rows : ReadGivenRow(r)

\* The read itself fails (an I/O or a decoding error) at any point of the pass.
ReadError ==
    /\ pc = "loop"
    /\ ExceptException(Raise("OSError"))
    /\ UNCHANGED <<argv, args, columns, consumed, aggregations, call, ret>>

\* The reader is exhausted: lines 211-255.
Report ==
    /\ pc = "loop"
    /\ WriteReport(aggregations)
    /\ pc' = "done"
    /\ UNCHANGED <<argv, args, columns, consumed, aggregations, err, call, ret>>

Init ==
    /\ pc = "start"
    /\ argv \in ArgvSet
    /\ args = None
    /\ columns = {}
    /\ consumed = <<>>
    /\ aggregations = <<>>
    /\ stats = <<>>
    /\ top_by_avg = <<>>
    /\ top_by_stddev = <<>>
    /\ out = <<>>
    /\ err = None
    /\ call = None
    /\ ret = None

Next == ParseArguments \/ OpenFile \/ ReadRow \/ ReadError \/ Report

Spec == Init /\ [][Next]_vars

----------------------------------------------------------------------------
(* Direct calls of should_include and compute_statistics *)

MaxLen == 4

DateFlagValues ==
    { None, EmptyStr,
      parse_datetime(Jan2),
      parse_datetime(Str(<<"2025-01-02", " ", "00:00:00", " ", "+0100", " ", "UTC">>)) }

FilterArgs ==
    [site : {None, EmptyStr, Str(<<"site_1">>)},
     device : {None, EmptyStr, Str(<<"dev_1">>)},
     metric : {None, EmptyStr, Str(<<"temp">>)},
     start_date : DateFlagValues,
     end_date : DateFlagValues]

FilterTimes ==
    { Jan2,
      Str(<<"2025-01-01", " ", "23:00:00">>),
      Str(<<"2025-01-02", " ", "01:00:00", " ", "+0000", " ", "UTC">>),
      Str(<<" ", "2025-01-03", " ">>),
      Str(<<"junk">>),
      EmptyStr,
      None }

FilterRows ==
    LET full == [time : FilterTimes,
                 site : {Str(<<"site_1">>), Str(<<"site_2">>), EmptyStr},
                 device : {Str(<<"dev_1">>), Str(<<"dev_2">>)},
                 metric : {Str(<<"temp">>), Str(<<"humidity">>)},
                 value : {Str(<<"1">>)}]
    IN  full \cup { Project(r, AllColumns \ {"time"}) : r \in full }

InitFilter ==
    /\ pc = "call"
    /\ call \in [row : FilterRows, args : FilterArgs]
    /\ ret = None
    /\ argv = None
    /\ args = None
    /\ columns = {}
    /\ consumed = <<>>
    /\ aggregations = <<>>
    /\ stats = <<>>
    /\ top_by_avg = <<>>
    /\ top_by_stddev = <<>>
    /\ out = <<>>
    /\ err = None

CallShouldInclude ==
    /\ pc = "call"
    /\ ret' = should_include(call.row, call.args)
    /\ pc' = "returned"
    /\ UNCHANGED <<argv, args, columns, consumed, aggregations, stats,
                   top_by_avg, top_by_stddev, out, err, call>>

SpecFilter == InitFilter /\ [][CallShouldInclude]_vars

StatValues ==
    { Num(1), Num(2), Num(3), Num(4), Num(10), Num(20), Num(30), Num(50), Num(55),
      Num(-1), Rat(5, 2) }

InitStats ==
    /\ pc = "call"
    /\ call \in [values : UNION { [1..n -> StatValues] : n \in 0..MaxLen }]
    /\ ret = None
    /\ argv = None
    /\ args = None
    /\ columns = {}
    /\ consumed = <<>>
    /\ aggregations = <<>>
    /\ stats = <<>>
    /\ top_by_avg = <<>>
    /\ top_by_stddev = <<>>
    /\ out = <<>>
    /\ err = None

CallComputeStatistics ==
    /\ pc = "call"
    /\ ret' = compute_statistics(call.values)
    /\ pc' = "returned"
    /\ UNCHANGED <<argv, args, columns, consumed, aggregations, stats,
                   top_by_avg, top_by_stddev, out, err, call>>

SpecStats == InitStats /\ [][CallComputeStatistics]_vars

----------------------------------------------------------------------------
(* Runs with many groups: no flag, a complete header, and every row of the  *)
(* file opening a new group.                                                *)

MaxRankRows == 11

\* At most this many rows of such a file hold the value nan.
MaxNaNRows == 1

RankDevices ==
    <<"dev_a", "dev_b", "dev_c", "dev_d", "dev_e", "dev_f", "dev_g", "dev_h",
      "dev_i", "dev_j", "dev_k", "dev_l", "dev_m">>

RankValues == { Str(<<"1">>), Str(<<"2">>), Str(<<"nan">>) }

\* The state of a run without flags once the file is open.
InitRank ==
    /\ pc = "loop"
    /\ argv = NoFlags
    /\ args = NoFlags
    /\ columns = AllColumns
    /\ consumed = <<>>
    /\ aggregations = <<>>
    /\ stats = <<>>
    /\ top_by_avg = <<>>
    /\ top_by_stddev = <<>>
    /\ out = <<>>
    /\ err = None
    /\ call = None
    /\ ret = None

NaNRows == { i \in 1..Len(consumed) : consumed[i].value = Str(<<"nan">>) }

ReadRankRow ==
    /\ pc = "loop"
    /\ Len(consumed) < MaxRankRows
    /\ Len(consumed) < Len(RankDevices)
    /\ \E v \in RankValues :
          /\ v = Str(<<"nan">>) => Cardinality(NaNRows) < MaxNaNRows
          /\ ReadGivenRow([BaseRow EXCEPT !.device = Str(<<RankDevices[Len(consumed) + 1]>>),
                                       !.value = v])

NextRank == ReadRankRow \/ Report

SpecRank == InitRank /\ [][NextRank]_vars

----------------------------------------------------------------------------
(* Properties *)

Last(seq) == seq[Len(seq)]
Min(a, b) == IF a < b THEN a ELSE b
Reported == pc = "done" /\ err = None
Keys(seq) == [i \in 1..Len(seq) |-> seq[i].key]
Distinct(seq) == \A i, j \in 1..Len(seq) : seq[i] = seq[j] => i = j

\* The row with its time field set to t.
WithTime(row, t) ==
    [c \in DOMAIN row \cup {"time"} |-> IF c = "time" THEN t ELSE row[c]]

TimeFails(row) ==
    \/ ~HasKey(row, "time")
    \/ row.time = None
    \/ parse_datetime(strip(row.time)) = ValueError

(* ---- C1 ---- *)

C1_FieldOk(row, field, criterion) ==
    criterion = None \/ (HasKey(row, field) /\ row[field] = criterion)

C1_TimeOk(row, a) ==
    (a.start_date # None \/ a.end_date # None) =>
        /\ ~TimeFails(row)
        /\ a.start_date # None =>
              ~dt_lt(parse_datetime(strip(row.time)), a.start_date)
        /\ a.end_date # None =>
              ~dt_lt(a.end_date, parse_datetime(strip(row.time)))

C1_Criteria(row, a) ==
    /\ C1_FieldOk(row, "site", a.site)
    /\ C1_FieldOk(row, "device", a.device)
    /\ C1_FieldOk(row, "metric", a.metric)
    /\ C1_TimeOk(row, a)

\* C1: for every record and every combination of criteria (site, device and
\* metric absent or a string, start and end absent or a timestamp),
\* should_include returns true if and only if every criterion that is present
\* holds: the three fields equal their criteria exactly, and with a start or
\* an end present the trimmed time parses and lies within the bounds,
\* inclusive.
C1_ShouldIncludeIffCriteria ==
    (pc = "returned"
        /\ call.args.start_date # EmptyStr /\ call.args.end_date # EmptyStr)
    => ((ret = Return(TRUE)) <=> C1_Criteria(call.row, call.args))

(* ---- C2 ---- *)

\* The rows read so far that pass the filter and carry a value that parses.
C2_Aggregated(row) ==
    /\ should_include(row, args) = Return(TRUE)
    /\ HasKey(row, "value")
    /\ convert_to_float(row.value) # None

C2_RowKey(row) == <<row.device, row.site, row.metric>>

C2_ExpectedKeys ==
    { C2_RowKey(consumed[i]) :
        i \in { j \in 1..Len(consumed) : C2_Aggregated(consumed[j]) } }

RECURSIVE C2_ExpectedValues(_, _)
C2_ExpectedValues(rows, key) ==
    IF rows = <<>> THEN <<>>
    ELSE IF C2_Aggregated(Head(rows)) /\ C2_RowKey(Head(rows)) = key
         THEN <<convert_to_float(Head(rows).value)>> \o C2_ExpectedValues(Tail(rows), key)
         ELSE C2_ExpectedValues(Tail(rows), key)

\* C2: as long as no error was caught, and so once the input is exhausted,
\* the groups are exactly the keys of the rows that pass the filter and have
\* a value that parses, each group holds exactly the parsed values of those
\* rows in input order, and the statistics count exactly them; the only
\* exceptions a row can end the run with come from the filter or from a
\* missing value column, never from a value field that is empty or not a
\* number.
C2_GroupsAreTheAggregatedRows ==
    /\ (pc \in {"loop", "done"} /\ err = None) =>
          /\ { aggregations[i].key : i \in 1..Len(aggregations) } = C2_ExpectedKeys
          /\ Distinct(Keys(aggregations))
          /\ \A i \in 1..Len(aggregations) :
                aggregations[i].values = C2_ExpectedValues(consumed, aggregations[i].key)
    /\ Reported =>
          /\ Keys(stats) = Keys(aggregations)
          /\ \A i \in 1..Len(stats) :
                stats[i].count = Len(C2_ExpectedValues(consumed, stats[i].key))
    /\ (err \in {Raise("KeyError"), Raise("AttributeError")}) =>
          \/ IsRaise(should_include(Last(consumed), args))
          \/ ~HasKey(Last(consumed), "value")

\* A run that ended with the report after a row whose value is not a number
\* and a row of the same group whose value is 1.
C2_Witness ==
    /\ Reported
    /\ Len(consumed) = 2
    /\ consumed[1] = [BaseRow EXCEPT !.value = Str(<<"abc">>)]
    /\ consumed[2] = BaseRow
    /\ aggregations = <<[key |-> C2_RowKey(BaseRow), values |-> <<Num(1)>>]>>
    /\ stats[1].count = 1

(* ---- C3 ---- *)

\* C3: in every state of the aggregation loop every stored value is a finite
\* number: no None, no nan and no infinity, whatever the value fields hold.
C3_StoredValuesAreFinite ==
    \A i \in 1..Len(aggregations) :
        \A j \in 1..Len(aggregations[i].values) :
            IsFinite(aggregations[i].values[j])

(* ---- C4 ---- *)

DateFilterActive(a) == IsDatetime(a.start_date) \/ IsDatetime(a.end_date)
NoDateFlag(a) == a.start_date = None /\ a.end_date = None

C4_Step ==
    (pc = "loop" /\ Len(consumed') = Len(consumed) + 1) =>
        LET row == Last(consumed')
        IN  /\ (DateFilterActive(args) /\ TimeFails(row)) =>
                  /\ aggregations' = aggregations
                  /\ pc' = "loop"
                  /\ err' = None
                  /\ out' = out
            /\ (NoDateFlag(args) /\ TimeFails(row)) =>
                  should_include(row, args) = should_include(WithTime(row, Jan2), args)

\* C4: with a start or end date filter active, reading a row whose time does
\* not parse (malformed, empty or missing) changes no group and is no error:
\* the loop goes on to the next row; with no date filter the time is not
\* looked at, and such a row is included exactly as with a well-formed time.
C4_UnparsableTimeIsAFilterMiss == [][C4_Step]_vars

(* ---- C5 ---- *)

RECURSIVE C5_Sum(_)
C5_Sum(xs) == IF xs = <<>> THEN Num(0) ELSE RatAdd(Head(xs), C5_Sum(Tail(xs)))

C5_SquaredDeviationSum(xs, mean) ==
    C5_Sum([i \in 1..Len(xs) |-> RatMul(RatSub(xs[i], mean), RatSub(xs[i], mean))])

C5_Elements(xs) == { xs[i] : i \in 1..Len(xs) }

C5_Fixture(xs, average, variance) ==
    call.values = xs => (ret.average = average /\ SquareOf(ret.std_dev) = variance)

\* C5: for every non-empty sequence of numbers compute_statistics returns the
\* number of elements, the exact minimum and maximum, an average with
\* average * count = the sum, and a std_dev >= 0 with std_dev^2 * count = the
\* sum of the squared deviations from the average (the population standard
\* deviation), which is 0 when count is 1; [1,2,3,4], [10,20,30] and [50,55]
\* give the averages 2.5, 20, 52.5 and the variances 1.25, 200/3, 6.25.
C5_StatisticsOfNumbers ==
    (pc = "returned" /\ Len(call.values) >= 1) =>
        LET xs == call.values
        IN  /\ ret.count = Len(xs)
            /\ ret.min \in C5_Elements(xs)
            /\ \A x \in C5_Elements(xs) : ~RatLt(x, ret.min)
            /\ ret.max \in C5_Elements(xs)
            /\ \A x \in C5_Elements(xs) : ~RatLt(ret.max, x)
            /\ IsNum(ret.average)
            /\ RatMul(ret.average, Num(ret.count)) = C5_Sum(xs)
            /\ ~flt(ret.std_dev, Num(0))
            /\ RatMul(SquareOf(ret.std_dev), Num(ret.count))
                  = C5_SquaredDeviationSum(xs, ret.average)
            /\ ret.count = 1 => ret.std_dev = Num(0)
            /\ C5_Fixture(<<Num(1), Num(2), Num(3), Num(4)>>, Rat(5, 2), Rat(5, 4))
            /\ C5_Fixture(<<Num(10), Num(20), Num(30)>>, Num(20), Rat(200, 3))
            /\ C5_Fixture(<<Num(50), Num(55)>>, Rat(105, 2), Rat(25, 4))

\* compute_statistics has returned for [10, 20, 30], with the irrational
\* standard deviation sqrt(200/3).
C5_Witness ==
    /\ pc = "returned"
    /\ call.values = <<Num(10), Num(20), Num(30)>>
    /\ ret.count = 3
    /\ ret.std_dev = [sqrt |-> Rat(200, 3)]

(* ---- C6 ---- *)

\* C6: once an error of the file was caught (open() failed, or an exception
\* was raised at any point of the pass, also after rows were aggregated), the
\* run has printed the error message and nothing else, has computed no
\* statistics and no ranking, and has ended.
C6_NoReportAfterFileError ==
    err # None =>
        /\ pc = "done"
        /\ out = <<"Error reading file">>
        /\ stats = <<>>
        /\ top_by_avg = <<>>
        /\ top_by_stddev = <<>>

\* A read error after a row was aggregated.
C6_Witness ==
    /\ err = Raise("OSError")
    /\ aggregations # <<>>
    /\ Len(consumed) >= 1
    /\ pc = "done"

(* ---- C7 ---- *)

C7_InvalidDate(v) == v # None /\ parse_datetime(v) = ValueError

\* C7: in a run whose --start-date or --end-date value is not a timestamp in
\* one of the three formats, the usage error ends the run before the file is
\* opened: no row is read, no group is created and no report is produced.
C7_InvalidDateFlagEndsTheRun ==
    (C7_InvalidDate(argv.start_date) \/ C7_InvalidDate(argv.end_date)) =>
        /\ pc \in {"start", "exit"}
        /\ pc = "exit" => out = <<"usage error">>
        /\ columns = {}
        /\ consumed = <<>>
        /\ aggregations = <<>>
        /\ stats = <<>>

(* ---- C8 ---- *)

C8_SortedDescending(top, field) ==
    \A i, j \in 1..Len(top) : i < j => ~flt(top[i][field], top[j][field])

C8_TopList(top, field) ==
    /\ C8_SortedDescending(top, field)
    /\ Len(top) = Min(TopN, Len(stats))
    /\ \A i \in 1..Len(top) : \E k \in 1..Len(stats) : stats[k] = top[i]
    /\ Distinct(Keys(top))
    /\ \A k \in 1..Len(stats) :
          (\A i \in 1..Len(top) : top[i].key # stats[k].key) =>
              \A i \in 1..Len(top) : ~flt(top[i][field], stats[k][field])

\* C8: in the report, each top-10 list is in descending order of its
\* statistic, has min(10, number of groups) entries, each a group of the
\* mapping and none twice, and no group left out has a strictly larger value
\* of the statistic than a group in the list.
C8_TopListsSortedAndTruncated ==
    Reported =>
        /\ C8_TopList(top_by_avg, "average")
        /\ C8_TopList(top_by_stddev, "std_dev")

(* ---- C9 ---- *)

\* The loop over the rows under the flags a, up to the first exception.
RECURSIVE C9_Aggregate(_, _, _)
C9_Aggregate(rows, a, agg) ==
    IF rows = <<>> THEN agg
    ELSE LET res == LoopBody(agg, Head(rows), a)
         IN  IF res.exc # None THEN res.agg
             ELSE C9_Aggregate(Tail(rows), a, res.agg)

RECURSIVE C9_Count(_)
C9_Count(agg) ==
    IF agg = <<>> THEN 0 ELSE Len(Head(agg).values) + C9_Count(Tail(agg))

C9_Unfiltered == C9_Aggregate(consumed, NoFlags, <<>>)

Position(seq, key) == CHOOSE i \in 1..Len(seq) : seq[i].key = key

\* The keys in the order in which their first aggregated row was read.
RECURSIVE C10_FirstReceived(_, _)
C10_FirstReceived(rows, seen) ==
    IF rows = <<>> THEN seen
    ELSE LET key == C2_RowKey(Head(rows))
         IN  IF C2_Aggregated(Head(rows)) /\ \A i \in 1..Len(seen) : seen[i] # key
             THEN C10_FirstReceived(Tail(rows), Append(seen, key))
             ELSE C10_FirstReceived(Tail(rows), seen)

C10_Stable(top, field) ==
    /\ \A i, j \in 1..Len(top) :
          (i < j /\ top[i][field] = top[j][field] /\ top[i][field] # NaN) =>
              Position(stats, top[i].key) < Position(stats, top[j].key)
    /\ \A k \in 1..Len(stats) :
          (\A i \in 1..Len(top) : top[i].key # stats[k].key) =>
              \A i \in 1..Len(top) :
                  (top[i][field] = stats[k][field] /\ top[i][field] # NaN) =>
                      Position(stats, top[i].key) < k

\* C10: the mapping iterates in the order in which the groups first received
\* a value, and in each top-10 list two groups with equal statistic appear in
\* that order; of the groups tied at the cut, those created earlier are kept.
C10_TiesKeepFirstReceivedOrder ==
    Reported =>
        /\ Keys(stats) = C10_FirstReceived(consumed, <<>>)
        /\ C10_Stable(top_by_avg, "average")
        /\ C10_Stable(top_by_stddev, "std_dev")

====
